---- MODULE Spec2Model ----
(***************************************************************************)
(* Window stream server (main.go): the /stream handler locates a window,   *)
(* resolves its geometry, launches an ffmpeg capture subprocess and relays *)
(* its standard output to the HTTP response; a detached task drains the    *)
(* subprocess's standard error; a deferred function kills and reaps the    *)
(* subprocess when the handler returns.                                    *)
(*                                                                         *)
(* Strings the code builds or parses are tuples of one-character strings,  *)
(* so that splitting, trimming and substring search are computed.          *)
(***************************************************************************)
EXTENDS Integers, Sequences, FiniteSets, TLC

\* ---------------------------------------------------------------- bounds
NumReqs == 2          \* concurrent requests of ConcSpec
MaxMatches == 2       \* windows a query may match
MaxBytes == 2         \* bytes a subprocess writes to standard output
OutPipeCap == 2       \* capacity of the standard-output pipe
ErrPipeCap == 1       \* capacity of the standard-error pipe
ScanTokenMax == 2     \* bufio.MaxScanTokenSize, scaled down
ChunkSize == 1        \* len(buffer), scaled down
ConcBytes == 1        \* bytes all subprocesses of ConcSpec write between them

Reqs == 1 .. NumReqs

\* ---------------------------------------------------------------- strings
NL == "\n"
WhiteSpace == {" ", NL, "\t", "\r"}

S_WindowNotFound == <<"W","i","n","d","o","w"," ","n","o","t"," ","f","o","u","n","d">>
S_PosFailed == <<"F","a","i","l","e","d"," ","t","o"," ","g","e","t"," ","w","i","n","d","o","w"," ","p","o","s","i","t","i","o","n">>
S_DimsFailed == <<"F","a","i","l","e","d"," ","t","o"," ","g","e","t"," ","w","i","n","d","o","w"," ","d","i","m","e","n","s","i","o","n","s">>
S_StreamError == <<"S","t","r","e","a","m"," ","e","r","r","o","r">>
S_NoWindowMatching == <<"n","o"," ","w","i","n","d","o","w"," ","m","a","t","c","h","i","n","g"," ","'">>
S_QuoteFound == <<"'"," ","f","o","u","n","d">>
S_LogFindFailed == <<"F","a","i","l","e","d"," ","t","o"," ","f","i","n","d"," ","w","i","n","d","o","w",":"," ">>
S_LogPosFailed == <<"F","a","i","l","e","d"," ","t","o"," ","g","e","t"," ","w","i","n","d","o","w"," ","p","o","s","i","t","i","o","n">>
S_LogDimsFailed == <<"F","a","i","l","e","d"," ","t","o"," ","p","a","r","s","e"," ","w","i","n","d","o","w"," ","d","i","m","e","n","s","i","o","n","s">>
S_LogPipeFailed == <<"F","a","i","l","e","d"," ","t","o"," ","c","r","e","a","t","e"," ","p","i","p","e">>
S_LogStartFailed == <<"F","a","i","l","e","d"," ","t","o"," ","s","t","a","r","t"," ","F","F","m","p","e","g">>
S_LogReadError == <<"S","t","r","e","a","m"," ","r","e","a","d"," ","e","r","r","o","r">>
S_LogWriteError == <<"S","t","r","e","a","m"," ","w","r","i","t","e"," ","e","r","r","o","r">>

\* strings.Contains(s, sub)
Contains(s, sub) ==
    \E i \in 0 .. (Len(s) - Len(sub)) : SubSeq(s, i + 1, i + Len(sub)) = sub

\* strings.TrimSpace(s)
RECURSIVE TrimLeft(_)
TrimLeft(s) ==
    IF s # <<>> /\ Head(s) \in WhiteSpace THEN TrimLeft(Tail(s)) ELSE s

RECURSIVE TrimRight(_)
TrimRight(s) ==
    IF s # <<>> /\ s[Len(s)] \in WhiteSpace
    THEN TrimRight(SubSeq(s, 1, Len(s) - 1)) ELSE s

TrimSpace(s) == TrimRight(TrimLeft(s))

\* strings.Split(s, "\n"): always at least one element
RECURSIVE SplitLines(_)
SplitLines(s) ==
    IF \E i \in 1 .. Len(s) : s[i] = NL
    THEN LET i == CHOOSE k \in 1 .. Len(s) :
                      s[k] = NL /\ \A j \in 1 .. (k - 1) : s[j] # NL
         IN  <<SubSeq(s, 1, i - 1)>> \o SplitLines(SubSeq(s, i + 1, Len(s)))
    ELSE <<s>>

\* ------------------------------------------------------- the window query
\* -window flag values (main.go:39); the empty filter is legal
Filters == { <<>>, <<"F","x">>, <<"n","o","t">> }

\* identifiers xdotool prints for matching windows
WindowIds == { <<"7">>, <<"9","7">> }

MatchLists ==
    UNION { [1 .. n -> WindowIds] : n \in 0 .. MaxMatches }

RECURSIVE JoinLines(_)
JoinLines(ids) ==
    IF ids = <<>> THEN <<>> ELSE Head(ids) \o <<NL>> \o JoinLines(Tail(ids))

\* Output of: sh -c "xdotool search --onlyvisible --name '<filter>'
\* 2>/dev/null || echo ''".  xdotool prints one identifier per line and
\* exits non-zero when nothing matches, in which case echo adds a bare
\* newline.
ShellSearchOutput(matches) ==
    IF matches = <<>> THEN <<NL>> ELSE JoinLines(matches)

\* the error text without the filter
NotFoundErrNoFilter(filter) == S_NoWindowMatching \o S_QuoteFound

\* fmt.Errorf("no window matching '%s' found", windowName)
NotFoundErr(filter) == S_NoWindowMatching \o filter \o S_QuoteFound

\* findWindow's body after the command ran: err is cmd.Output's error
findWindowBroken(filter, output, err) ==
    IF err
    THEN [ok |-> FALSE, id |-> <<>>, err |-> NotFoundErr(filter)]
    ELSE [ok |-> TRUE, id |-> SplitLines(TrimSpace(output))[1], err |-> <<>>]

\* a findWindow that returns the last identifier of the result
findWindowLast(filter, output, err) ==
    IF err \/ Len(output) = 0
    THEN [ok |-> FALSE, id |-> <<>>, err |-> NotFoundErr(filter)]
    ELSE LET windowIDs == SplitLines(TrimSpace(output))
         IN  IF Len(windowIDs) = 0 \/ windowIDs[1] = <<>>
             THEN [ok |-> FALSE, id |-> <<>>, err |-> NotFoundErr(filter)]
             ELSE [ok |-> TRUE, id |-> windowIDs[Len(windowIDs)], err |-> <<>>]

findWindow(filter, output, err) ==
    IF err \/ Len(output) = 0
    THEN [ok |-> FALSE, id |-> <<>>, err |-> NotFoundErr(filter)]
    ELSE LET windowIDs == SplitLines(TrimSpace(output))
         IN  IF Len(windowIDs) = 0 \/ windowIDs[1] = <<>>
             THEN [ok |-> FALSE, id |-> <<>>, err |-> NotFoundErr(filter)]
             ELSE [ok |-> TRUE, id |-> windowIDs[1], err |-> <<>>]

\* ------------------------------------------------------ the geometry query
\* the labels of main.go:108-115 and the text before %d in the formats
L_X == <<"A","b","s","o","l","u","t","e"," ","u","p","p","e","r","-","l","e","f","t"," ","X",":">>
L_Y == <<"A","b","s","o","l","u","t","e"," ","u","p","p","e","r","-","l","e","f","t"," ","Y",":">>
L_Width == <<"W","i","d","t","h",":">>
L_Height == <<"H","e","i","g","h","t",":">>

F_X == <<" "," ">> \o L_X \o <<" "," ">>
F_Y == <<" "," ">> \o L_Y \o <<" "," ">>
F_Width == <<" "," ">> \o L_Width \o <<" ">>
F_Height == <<" "," ">> \o L_Height \o <<" ">>

DigitChars == <<"0","1","2","3","4","5","6","7","8","9">>

IsDigit(ch) == \E d \in 1 .. 10 : DigitChars[d] = ch

DigitVal(ch) == (CHOOSE d \in 1 .. 10 : DigitChars[d] = ch) - 1

\* the decimal text of a number below 100
Digits(n) ==
    IF n < 10 THEN <<DigitChars[n + 1]>>
    ELSE <<DigitChars[(n \div 10) + 1], DigitChars[(n % 10) + 1]>>

\* What the geometry query prints for one label: no line, a line whose
\* value is not a number, or a line with the number n.
Absent == [present |-> FALSE, scans |-> FALSE, n |-> 0]
Garbled == [present |-> TRUE, scans |-> FALSE, n |-> 0]
Num(n) == [present |-> TRUE, scans |-> TRUE, n |-> n]
XYVals == {Absent, Garbled, Num(10)}
SizeVals == {Absent, Garbled, Num(0), Num(1), Num(2)}

\* one line of xwininfo, as grep lets it through
Line(format, v) ==
    IF ~v.present THEN <<>>
    ELSE format \o (IF v.scans THEN Digits(v.n) ELSE <<"x">>) \o <<NL>>

\* the output of the geometry query for a window described by c
GeomText(c) ==
    Line(F_X, c.vx) \o Line(F_Y, c.vy) \o Line(F_Width, c.vw) \o Line(F_Height, c.vh)

GeomCase(vx, vy, vw, vh) == [vx |-> vx, vy |-> vy, vw |-> vw, vh |-> vh]

NoCase == GeomCase(Absent, Absent, Absent, Absent)

GeomCases ==
    { GeomCase(vx, vy, vw, vh) :
        vx \in XYVals, vy \in XYVals, vw \in SizeVals, vh \in SizeVals }

\* the descriptions together with the text the query prints for each
GeomOutputs == { [given |-> c, text |-> GeomText(c)] : c \in GeomCases }

RECURSIVE DropSpaces(_)
DropSpaces(s) ==
    IF s # <<>> /\ Head(s) = " " THEN DropSpaces(Tail(s)) ELSE s

\* fmt's matching of the format text before the verb: a run of spaces in
\* the format takes one or more spaces of the input (or its end), any other
\* character must be the next character of the input
RECURSIVE ScanLiteral(_, _)
ScanLiteral(input, format) ==
    IF format = <<>> THEN [ok |-> TRUE, rest |-> input]
    ELSE IF Head(format) = " "
    THEN IF input # <<>> /\ Head(input) # " "
         THEN [ok |-> FALSE, rest |-> input]
         ELSE ScanLiteral(DropSpaces(input), DropSpaces(format))
    ELSE IF input # <<>> /\ Head(input) = Head(format)
         THEN ScanLiteral(Tail(input), Tail(format))
         ELSE [ok |-> FALSE, rest |-> input]

RECURSIVE ScanDigits(_, _)
ScanDigits(s, acc) ==
    IF s # <<>> /\ IsDigit(Head(s))
    THEN ScanDigits(Tail(s), 10 * acc + DigitVal(Head(s)))
    ELSE acc

\* the verb %d: leading spaces are skipped, then at least one digit
ScanInt(input) ==
    LET s == DropSpaces(input)
    IN  IF s # <<>> /\ IsDigit(Head(s))
        THEN [ok |-> TRUE, n |-> ScanDigits(s, 0)]
        ELSE [ok |-> FALSE, n |-> 0]

\* a %d that stops after the first digit
SscanfFirstDigit(line, format, field) ==
    LET m == ScanLiteral(line, format)
        s == DropSpaces(m.rest)
    IN  IF m.ok /\ s # <<>> /\ IsDigit(Head(s)) THEN DigitVal(Head(s)) ELSE field

\* fmt.Sscanf(line, "<format>%d", &field): the field keeps its value when
\* the line does not match the format or the number does not scan
Sscanf(line, format, field) ==
    LET m == ScanLiteral(line, format)
    IN  IF m.ok /\ ScanInt(m.rest).ok THEN ScanInt(m.rest).n ELSE field

ZeroGeom == [x |-> 0, y |-> 0, width |-> 0, height |-> 0]

\* the loop over posLines (main.go:107-117)
RECURSIVE ParseLines(_, _)
ParseLines(lines, g) ==
    IF lines = <<>> THEN g
    ELSE LET line == Head(lines)
             g2 == IF Contains(line, L_X)
                   THEN [g EXCEPT !.x = Sscanf(line, F_X, g.x)]
                   ELSE IF Contains(line, L_Y)
                   THEN [g EXCEPT !.y = Sscanf(line, F_Y, g.y)]
                   ELSE IF Contains(line, L_Width)
                   THEN [g EXCEPT !.width = Sscanf(line, F_Width, g.width)]
                   ELSE IF Contains(line, L_Height)
                   THEN [g EXCEPT !.height = Sscanf(line, F_Height, g.height)]
                   ELSE g
         IN  ParseLines(Tail(lines), g2)

\* main.go:105-117: strings.Split(string(posOutput), "\n"), then the loop
ParseGeometry(posOutput) == ParseLines(SplitLines(posOutput), ZeroGeom)

\* the parse of every text the geometry query can print
ParseTable == [t \in { o.text : o \in GeomOutputs } |-> ParseGeometry(t)]

\* the test of main.go:119
DimsRejectedBroken(g) == g.width = 0 /\ g.height = 0

DimsRejected(g) == g.width = 0 \/ g.height = 0

\* ------------------------------------------------------------------ state
VARIABLES
    windowName,   \* the -window flag (main.go:25), read-only after startup
    serverUp,     \* the server process is alive (main blocked on <-c)
    req,          \* req[r]: the locals of the handler goroutine of request r
    resp,         \* resp[r]: the http.ResponseWriter of request r and its peer
    cmd,          \* cmd[r]: the exec.Cmd of request r, its pipes and its drain task
    hist          \* hist[r]: what happened to request r (history only)

vars == <<windowName, serverUp, req, resp, cmd, hist>>

\* request methods and request paths (r.Method, r.URL.Path)
Methods == {"GET", "POST"}

P_Stream == <<"/","s","t","r","e","a","m">>

Paths ==
    { P_Stream,
      <<"/">>,
      <<"/","x">>,
      <<"/","s","t","r","e","a","m","/">>,
      <<"/","/","s","t","r","e","a","m">>,
      <<"/","x","/",".",".","/","s","t","r","e","a","m">> }

\* strings.Split(s, "/")
RECURSIVE SplitPath(_)
SplitPath(s) ==
    IF \E i \in 1 .. Len(s) : s[i] = "/"
    THEN LET i == CHOOSE k \in 1 .. Len(s) :
                      s[k] = "/" /\ \A j \in 1 .. (k - 1) : s[j] # "/"
         IN  <<SubSeq(s, 1, i - 1)>> \o SplitPath(SubSeq(s, i + 1, Len(s)))
    ELSE <<s>>

\* path.Clean on the segments of a rooted path: empty and "." segments
\* are dropped, ".." removes the segment before it
RECURSIVE CleanSegments(_, _)
CleanSegments(segs, acc) ==
    IF segs = <<>> THEN acc
    ELSE LET seg == Head(segs)
             acc2 == IF seg = <<>> \/ seg = <<".">> THEN acc
                     ELSE IF seg = <<".", ".">>
                     THEN (IF acc = <<>> THEN acc ELSE SubSeq(acc, 1, Len(acc) - 1))
                     ELSE Append(acc, seg)
         IN  CleanSegments(Tail(segs), acc2)

RECURSIVE JoinPath(_)
JoinPath(segs) ==
    IF segs = <<>> THEN <<>> ELSE <<"/">> \o Head(segs) \o JoinPath(Tail(segs))

\* net/http cleanPath: the canonical form of a request path, a trailing
\* slash kept
cleanPath(path) ==
    IF path = <<>> THEN <<"/">>
    ELSE LET rooted == IF Head(path) = "/" THEN path ELSE <<"/">> \o path
             joined == JoinPath(CleanSegments(SplitPath(rooted), <<>>))
             np == IF joined = <<>> THEN <<"/">> ELSE joined
         IN  IF rooted[Len(rooted)] = "/" /\ np # <<"/">>
             THEN np \o <<"/">> ELSE np

\* a mux that passes every path on to the handler as it came
MuxRedirectsNever(method, path) == FALSE

\* main.go:50: the handler is registered for "/" on the default ServeMux,
\* which answers a request whose path is not in canonical form with a
\* redirect to the canonical form instead of calling the handler
MuxRedirects(method, path) == method # "CONNECT" /\ cleanPath(path) # path

\* a test that also takes the path with a trailing slash
IsStreamPathLoose(path) == path = P_Stream \/ path = P_Stream \o <<"/">>

\* main.go:67
IsStreamPath(path) == path = P_Stream

NoHeaders == [ct |-> "", cc |-> "", conn |-> "", pragma |-> ""]

\* main.go:82-85
StreamHeaders ==
    [ct |-> "multipart/x-mixed-replace; boundary=ffmpeg",
     cc |-> "no-cache, no-store, must-revalidate",
     conn |-> "close",
     pragma |-> "no-cache"]

InitReq ==
    [pc |-> "idle", method |-> "", path |-> <<>>, windowID |-> <<>>,
     posOutput |-> <<>>, geom |-> ZeroGeom, buffer |-> <<>>, deferred |-> FALSE]

InitResp ==
    [client |-> "open", status |-> 0, header |-> NoHeaders, body |-> <<>>,
     sink |-> <<>>, flushed |-> 0]

InitCmd ==
    [st |-> "none", args |-> ZeroGeom, outPipe |-> <<>>, produced |-> 0,
     errPipe |-> <<>>, blocked |-> FALSE, drain |-> "none", scanBuf |-> <<>>]

InitHist ==
    [stages |-> <<>>, errKind |-> "none", logged |-> <<>>, matched |-> "unknown",
     cause |-> "none", selfExit |-> FALSE, starts |-> 0, stops |-> 0,
     waits |-> 0, drainEnd |-> "none", given |-> NoCase, found |-> <<>>]

Init ==
    /\ windowName \in Filters
    /\ serverUp = TRUE
    /\ req = [r \in Reqs |-> InitReq]
    /\ resp = [r \in Reqs |-> InitResp]
    /\ cmd = [r \in Reqs |-> InitCmd]
    /\ hist = [r \in Reqs |-> InitHist]

\* ------------------------------------------------------- library behaviour
\* http.Error that writes the message without the status code
HttpErrorWithoutStatus(rs, msg) ==
    IF rs.status # 0 THEN rs
    ELSE [rs EXCEPT !.status = 200, !.body = msg \o <<NL>>]

\* http.Error(w, msg, 500) on a response whose header is not yet written:
\* replaces Content-Type, writes the status line and msg followed by "\n"
HttpError(rs, msg) ==
    IF rs.status # 0 THEN rs
    ELSE [rs EXCEPT !.status = 500,
                    !.header.ct = "text/plain; charset=utf-8",
                    !.body = msg \o <<NL>>]

\* net/http when the handler returns without having written: 200, empty body
FinishRequest(rs) == IF rs.status = 0 THEN [rs EXCEPT !.status = 200] ELSE rs

\* cmd.Process.Kill(): SIGKILL to a running child; on a child that already
\* exited (zombie or reaped) it changes nothing and returns an error value
Kill(c) ==
    IF c.st = "running"
    THEN [c |-> [c EXCEPT !.st = "exited", !.blocked = FALSE], err |-> FALSE]
    ELSE [c |-> c, err |-> (c.st = "reaped")]

\* cmd.Wait() blocks while the child runs
WaitBlocks(c) == c.st = "running"

\* cmd.Wait() on a child that exited: reaps it and closes the parent's ends
\* of both pipes; a second call changes nothing and returns an error value
WaitLeavesZombie(c) == [c |-> c, err |-> (c.st = "reaped")]

Wait(c) ==
    IF c.st = "exited"
    THEN [c |-> [c EXCEPT !.st = "reaped", !.outPipe = <<>>, !.errPipe = <<>>],
          err |-> FALSE]
    ELSE [c |-> c, err |-> TRUE]

\* the deferred function (main.go:173-179) as one operation on the session;
\* both return values are discarded
Stop(c) ==
    IF c.st # "none" THEN Wait(Kill(c).c).c ELSE c

\* where a return statement of streamWindow leads: to the deferred function
\* when it was registered, else out of the handler
OnReturnSkipsDefer(rq) == "done"

OnReturn(rq) == IF rq.deferred THEN "kill" ELSE "done"

Min(a, b) == IF a < b THEN a ELSE b

\* -------------------------------------------------------- handler actions
\* the ServeMux (main.go:50), then serveWindowStream (main.go:66-78): the
\* viewer page is a 200 with the rendered template
Dispatch(r, methods, paths) ==
    /\ serverUp
    /\ req[r].pc = "idle"
    /\ \E method \in methods, path \in paths :
        IF MuxRedirects(method, path)
        THEN /\ req' = [req EXCEPT ![r].pc = "done", ![r].method = method,
                                   ![r].path = path]
             /\ resp' = [resp EXCEPT ![r].status = 301,
                                      ![r].header.ct = "text/html; charset=utf-8"]
             /\ hist' = [hist EXCEPT ![r].stages = <<"redirect">>]
        ELSE IF IsStreamPath(path)
        THEN /\ req' = [req EXCEPT ![r].pc = "headers", ![r].method = method,
                                   ![r].path = path]
             /\ hist' = [hist EXCEPT ![r].stages = <<"stream">>]
             /\ UNCHANGED resp
        ELSE /\ req' = [req EXCEPT ![r].pc = "done", ![r].method = method,
                                   ![r].path = path]
             /\ resp' = [resp EXCEPT ![r].status = 200,
                                      ![r].header.ct = "text/html; charset=utf-8"]
             /\ hist' = [hist EXCEPT ![r].stages = <<"page">>]
    /\ UNCHANGED <<windowName, serverUp, cmd>>

Arrive(r) == Dispatch(r, Methods, Paths)

\* main.go:82-85 without the Connection header
SetHeadersWithoutClose(r) ==
    /\ serverUp
    /\ req[r].pc = "headers"
    /\ req' = [req EXCEPT ![r].pc = "findWindow", ![r].method = ""]
    /\ resp' = [resp EXCEPT ![r].header = [StreamHeaders EXCEPT !.conn = ""]]
    /\ UNCHANGED <<windowName, serverUp, cmd, hist>>

\* main.go:82-85; streamWindow never reads the request, and the model
\* forgets its method here
SetHeaders(r) ==
    /\ serverUp
    /\ req[r].pc = "headers"
    /\ req' = [req EXCEPT ![r].pc = "findWindow", ![r].method = ""]
    /\ resp' = [resp EXCEPT ![r].header = StreamHeaders]
    /\ UNCHANGED <<windowName, serverUp, cmd, hist>>

\* main.go:88-93 with findWindow (main.go:235-250)
Locate(r, lists) ==
    /\ serverUp
    /\ req[r].pc = "findWindow"
    /\ \E matches \in lists, err \in BOOLEAN :
        LET output == IF err THEN <<>> ELSE ShellSearchOutput(matches)
            res == findWindow(windowName, output, err)
            seen == IF err THEN "failed"
                    ELSE IF matches = <<>> THEN "zero" ELSE "some"
        IN  IF res.ok
            THEN /\ req' = [req EXCEPT ![r].pc = "posCmd", ![r].windowID = res.id]
                 /\ hist' = [hist EXCEPT ![r].stages = Append(@, "locate"),
                                          ![r].matched = seen,
                                          ![r].found = matches]
                 /\ UNCHANGED resp
            ELSE /\ req' = [req EXCEPT ![r].pc = OnReturn(req[r])]
                 /\ resp' = [resp EXCEPT ![r] = HttpError(@, S_WindowNotFound)]
                 /\ hist' = [hist EXCEPT ![r].stages = Append(@, "locate"),
                                          ![r].matched = seen,
                                          ![r].errKind = "NotFound",
                                          ![r].logged = S_LogFindFailed \o res.err]
    /\ UNCHANGED <<windowName, serverUp, cmd>>

\* main.go:96-102
Resolve(r, outputs) ==
    /\ serverUp
    /\ req[r].pc = "posCmd"
    /\ \/ \E o \in outputs :
            /\ o.text # <<>>        \* grep exits non-zero when no line matches
            \* windowID is not read again after the query (main.go:96)
            /\ req' = [req EXCEPT ![r].pc = "parse",
                                  ![r].posOutput = o.text,
                                  ![r].windowID = <<>>]
            /\ hist' = [hist EXCEPT ![r].stages = Append(@, "resolve"),
                                     ![r].given = o.given, ![r].found = <<>>]
            /\ UNCHANGED resp
       \/ /\ req' = [req EXCEPT ![r].pc = OnReturn(req[r]), ![r].windowID = <<>>]
          /\ resp' = [resp EXCEPT ![r] = HttpError(@, S_PosFailed)]
          /\ hist' = [hist EXCEPT ![r].stages = Append(@, "resolve"),
                                   ![r].found = <<>>,
                                   ![r].errKind = "Geometry",
                                   ![r].logged = S_LogPosFailed]
    /\ UNCHANGED <<windowName, serverUp, cmd>>

\* main.go:105-117
Parse(r) ==
    /\ serverUp
    /\ req[r].pc = "parse"
    /\ req' = [req EXCEPT ![r].pc = "check",
                          ![r].geom = ParseTable[req[r].posOutput]]
    /\ UNCHANGED <<windowName, serverUp, resp, cmd, hist>>

\* main.go:119-137: the dimension test, then exec.Command builds cmd
CheckDims(r) ==
    /\ serverUp
    /\ req[r].pc = "check"
    /\ IF DimsRejected(req[r].geom)
       THEN /\ req' = [req EXCEPT ![r].pc = OnReturn(req[r])]
            /\ resp' = [resp EXCEPT ![r] = HttpError(@, S_DimsFailed)]
            /\ hist' = [hist EXCEPT ![r].errKind = "Geometry",
                                     ![r].logged = S_LogDimsFailed]
            /\ UNCHANGED cmd
       ELSE /\ req' = [req EXCEPT ![r].pc = "stderrPipe", ![r].posOutput = <<>>]
            /\ cmd' = [cmd EXCEPT ![r].args = req[r].geom]
            /\ UNCHANGED <<resp, hist>>
    /\ UNCHANGED <<windowName, serverUp>>

\* main.go:140-152: cmd.StderrPipe(), then cmd.StdoutPipe()
MakePipe(r, at, next) ==
    /\ serverUp
    /\ req[r].pc = at
    /\ \E err \in BOOLEAN :
        IF err
        THEN /\ req' = [req EXCEPT ![r].pc = OnReturn(req[r])]
             /\ resp' = [resp EXCEPT ![r] = HttpError(@, S_StreamError)]
             /\ hist' = [hist EXCEPT ![r].errKind = "Launch",
                                      ![r].logged = S_LogPipeFailed]
        ELSE /\ req' = [req EXCEPT ![r].pc = next]
             /\ UNCHANGED <<resp, hist>>
    /\ UNCHANGED <<windowName, serverUp, cmd>>

StderrPipe(r) == MakePipe(r, "stderrPipe", "stdoutPipe")

StdoutPipe(r) == MakePipe(r, "stdoutPipe", "start")

\* main.go:155-160 without the return of line 159
StartMissingReturn(r) ==
    /\ serverUp
    /\ req[r].pc = "start"
    /\ \E err \in BOOLEAN :
        IF err
        THEN /\ req' = [req EXCEPT ![r].pc = "spawn"]
             /\ resp' = [resp EXCEPT ![r] = HttpError(@, S_StreamError)]
             /\ hist' = [hist EXCEPT ![r].errKind = "Launch",
                                      ![r].logged = S_LogStartFailed]
             /\ UNCHANGED cmd
        ELSE /\ req' = [req EXCEPT ![r].pc = "spawn"]
             /\ cmd' = [cmd EXCEPT ![r].st = "running"]
             /\ hist' = [hist EXCEPT ![r].stages = Append(@, "start"),
                                      ![r].starts = @ + 1]
             /\ UNCHANGED resp
    /\ UNCHANGED <<windowName, serverUp>>

\* main.go:155-160
Start(r) ==
    /\ serverUp
    /\ req[r].pc = "start"
    /\ \E err \in BOOLEAN :
        IF err
        THEN /\ req' = [req EXCEPT ![r].pc = OnReturn(req[r])]
             /\ resp' = [resp EXCEPT ![r] = HttpError(@, S_StreamError)]
             /\ hist' = [hist EXCEPT ![r].errKind = "Launch",
                                      ![r].logged = S_LogStartFailed]
             /\ UNCHANGED cmd
        ELSE /\ req' = [req EXCEPT ![r].pc = "spawn"]
             /\ cmd' = [cmd EXCEPT ![r].st = "running"]
             /\ hist' = [hist EXCEPT ![r].stages = Append(@, "start"),
                                      ![r].starts = @ + 1]
             /\ UNCHANGED resp
    /\ UNCHANGED <<windowName, serverUp>>

\* a handler that runs cmd.Start a second time before it enters the loop
SpawnStartsAgain(r) ==
    /\ serverUp
    /\ req[r].pc = "spawn"
    /\ req' = [req EXCEPT ![r].pc = IF hist[r].starts < 2 THEN "start" ELSE "read",
                          ![r].deferred = TRUE]
    /\ cmd' = [cmd EXCEPT ![r].drain = "scanning"]
    /\ UNCHANGED <<windowName, serverUp, resp, hist>>

\* main.go:162-182: go func() for the drain task, defer of the cleanup,
\* allocation of buffer.  The geometry and the command line are not read
\* again once the child runs, and the model forgets them here.
Spawn(r) ==
    /\ serverUp
    /\ req[r].pc = "spawn"
    /\ req' = [req EXCEPT ![r].pc = "read", ![r].deferred = TRUE,
                          ![r].windowID = <<>>, ![r].geom = ZeroGeom]
    /\ cmd' = [cmd EXCEPT ![r].drain = "scanning", ![r].args = ZeroGeom]
    /\ hist' = [hist EXCEPT ![r].given = NoCase]
    /\ UNCHANGED <<windowName, serverUp, resp>>

\* the first time the loop is entered the relay stage begins
EnterRelay(h) ==
    IF h.stages # <<>> /\ h.stages[Len(h.stages)] = "relay" THEN h
    ELSE [h EXCEPT !.stages = Append(@, "relay")]

\* a Read that copies from the pipe without consuming what it copied
ReadKeepsBytes(r) ==
    /\ serverUp
    /\ req[r].pc = "read"
    /\ cmd[r].outPipe # <<>>
    /\ req' = [req EXCEPT ![r].pc = "write",
                          ![r].buffer = SubSeq(cmd[r].outPipe, 1,
                                               Min(Len(cmd[r].outPipe), ChunkSize))]
    /\ hist' = [hist EXCEPT ![r] = EnterRelay(@)]
    /\ UNCHANGED <<windowName, serverUp, resp, cmd>>

\* main.go:184-188: stdout.Read(buffer).  Blocks while the pipe is empty and
\* the child still holds its write end; io.EOF once the child is gone and
\* the pipe is drained.
Read(r) ==
    /\ serverUp
    /\ req[r].pc = "read"
    /\ IF cmd[r].outPipe # <<>>
       THEN LET n == Min(Len(cmd[r].outPipe), ChunkSize)
            IN  /\ req' = [req EXCEPT ![r].pc = "write",
                                      ![r].buffer = SubSeq(cmd[r].outPipe, 1, n)]
                /\ cmd' = [cmd EXCEPT ![r].outPipe =
                               SubSeq(@, n + 1, Len(@))]
                /\ hist' = [hist EXCEPT ![r] = EnterRelay(@)]
       ELSE /\ cmd[r].st # "running"
            /\ req' = [req EXCEPT ![r].pc = OnReturn(req[r])]
            /\ hist' = [hist EXCEPT ![r] = [EnterRelay(@) EXCEPT
                                              !.errKind = "Stream",
                                              !.cause = "eof",
                                              !.logged = S_LogReadError]]
            /\ UNCHANGED cmd
    /\ UNCHANGED <<windowName, serverUp, resp>>

\* main.go:184-188: stdout.Read(buffer) returns an error other than io.EOF
ReadFail(r) ==
    /\ serverUp
    /\ req[r].pc = "read"
    /\ req' = [req EXCEPT ![r].pc = OnReturn(req[r])]
    /\ hist' = [hist EXCEPT ![r] = [EnterRelay(@) EXCEPT
                                      !.errKind = "Stream",
                                      !.cause = "read",
                                      !.logged = S_LogReadError]]
    /\ UNCHANGED <<windowName, serverUp, resp, cmd>>

\* a Write whose error is logged and followed by another round of the loop
WriteRetries(r) ==
    /\ serverUp
    /\ req[r].pc = "write"
    /\ IF resp[r].client = "open"
       THEN /\ req' = [req EXCEPT ![r].pc = "flush"]
            /\ resp' = [resp EXCEPT ![r].sink = @ \o req[r].buffer,
                                     ![r].status = IF @ = 0 THEN 200 ELSE @]
            /\ UNCHANGED hist
       ELSE /\ req' = [req EXCEPT ![r].pc = "read"]
            /\ hist' = [hist EXCEPT ![r].errKind = "Stream",
                                     ![r].cause = "write",
                                     ![r].logged = S_LogWriteError]
            /\ UNCHANGED resp
    /\ UNCHANGED <<windowName, serverUp, cmd>>

\* main.go:190-195: w.Write(buffer[:n]); the first Write sends status 200
\* and the header; a Write to a peer that is gone fails
Write(r) ==
    /\ serverUp
    /\ req[r].pc = "write"
    /\ IF resp[r].client = "open"
       THEN /\ req' = [req EXCEPT ![r].pc = "flush"]
            /\ resp' = [resp EXCEPT ![r].sink = @ \o req[r].buffer,
                                     ![r].status = IF @ = 0 THEN 200 ELSE @]
            /\ UNCHANGED hist
       ELSE /\ req' = [req EXCEPT ![r].pc = OnReturn(req[r])]
            /\ hist' = [hist EXCEPT ![r].errKind = "Stream",
                                     ![r].cause = "write",
                                     ![r].logged = S_LogWriteError]
            /\ UNCHANGED resp
    /\ UNCHANGED <<windowName, serverUp, cmd>>

\* main.go:198-200
Flush(r) ==
    /\ serverUp
    /\ req[r].pc = "flush"
    /\ req' = [req EXCEPT ![r].pc = "read"]
    /\ resp' = [resp EXCEPT ![r].flushed = Len(resp[r].sink)]
    /\ UNCHANGED <<windowName, serverUp, cmd, hist>>

\* a cleanup that kills every capture subprocess of the server
DeferKillAll(r) ==
    /\ serverUp
    /\ req[r].pc = "kill"
    /\ req' = [req EXCEPT ![r].pc = "wait"]
    /\ cmd' = [o \in Reqs |->
                 IF cmd[o].st # "none" THEN Kill(cmd[o]).c ELSE cmd[o]]
    /\ hist' = [hist EXCEPT ![r].stages = Append(@, "stop"),
                             ![r].stops = @ + 1]
    /\ UNCHANGED <<windowName, serverUp, resp>>

\* main.go:174-175: the deferred function, cmd.Process.Kill()
DeferKill(r) ==
    /\ serverUp
    /\ req[r].pc = "kill"
    /\ req' = [req EXCEPT ![r].pc = "wait"]
    /\ cmd' = [cmd EXCEPT ![r] = IF @.st # "none" THEN Kill(@).c ELSE @]
    /\ hist' = [hist EXCEPT ![r].stages = Append(@, "stop"),
                             ![r].stops = @ + 1]
    /\ UNCHANGED <<windowName, serverUp, resp>>

\* a cleanup that runs a second time after its Wait
DeferWaitRepeats(r) ==
    /\ serverUp
    /\ req[r].pc = "wait"
    /\ ~WaitBlocks(cmd[r])
    /\ req' = [req EXCEPT ![r].pc = IF hist[r].stops < 2 THEN "kill" ELSE "done"]
    /\ cmd' = [cmd EXCEPT ![r] = IF @.st # "none" THEN Wait(@).c ELSE @]
    /\ resp' = [resp EXCEPT ![r] = FinishRequest(@)]
    /\ hist' = [hist EXCEPT ![r].waits = @ + 1]
    /\ UNCHANGED <<windowName, serverUp>>

\* main.go:176-178: cmd.Wait(), then the handler has returned
DeferWait(r) ==
    /\ serverUp
    /\ req[r].pc = "wait"
    /\ ~WaitBlocks(cmd[r])
    /\ req' = [req EXCEPT ![r].pc = "done"]
    /\ cmd' = [cmd EXCEPT ![r] = IF @.st # "none" THEN Wait(@).c ELSE @]
    /\ resp' = [resp EXCEPT ![r] = FinishRequest(@)]
    /\ hist' = [hist EXCEPT ![r].waits = @ + 1]
    /\ UNCHANGED <<windowName, serverUp>>

\* main.go:165-170: one step of scanner.Scan() in the drain task.  The
\* scanner ends at end of input, at a read error (cmd.Wait closed the pipe)
\* and when a line fills its token buffer.
TokenTooLong(c, ch) == ch # NL /\ Len(c.scanBuf) + 1 >= ScanTokenMax

\* a scanner that does not notice that cmd.Wait closed the pipe
DrainScanMissesClose(r) ==
    /\ serverUp
    /\ cmd[r].drain = "scanning"
    /\ cmd[r].st # "reaped"
    /\ IF cmd[r].errPipe # <<>>
       THEN LET ch == Head(cmd[r].errPipe)
            IN  /\ cmd' = [cmd EXCEPT
                       ![r].errPipe = Tail(@),
                       ![r].drain = IF TokenTooLong(cmd[r], ch) THEN "ended" ELSE @,
                       ![r].scanBuf = IF ch = NL \/ TokenTooLong(cmd[r], ch)
                                      THEN <<>> ELSE Append(@, ch)]
                /\ hist' = [hist EXCEPT ![r].drainEnd =
                               IF TokenTooLong(cmd[r], ch) THEN "tooLong" ELSE @]
       ELSE /\ cmd[r].st = "exited"
            /\ cmd' = [cmd EXCEPT ![r].drain = "ended", ![r].scanBuf = <<>>]
            /\ hist' = [hist EXCEPT ![r].drainEnd = "eof"]
    /\ UNCHANGED <<windowName, serverUp, req, resp>>

DrainScan(r) ==
    /\ serverUp
    /\ cmd[r].drain = "scanning"
    /\ IF cmd[r].st = "reaped"
       THEN /\ cmd' = [cmd EXCEPT ![r].drain = "ended", ![r].scanBuf = <<>>]
            /\ hist' = [hist EXCEPT ![r].drainEnd = "closed"]
       ELSE IF cmd[r].errPipe # <<>>
       THEN LET ch == Head(cmd[r].errPipe)
            IN  /\ cmd' = [cmd EXCEPT
                       ![r].errPipe = Tail(@),
                       ![r].drain = IF TokenTooLong(cmd[r], ch) THEN "ended" ELSE @,
                       ![r].scanBuf = IF ch = NL \/ TokenTooLong(cmd[r], ch)
                                      THEN <<>> ELSE Append(@, ch)]
                /\ hist' = [hist EXCEPT ![r].drainEnd =
                               IF TokenTooLong(cmd[r], ch) THEN "tooLong" ELSE @]
       ELSE /\ cmd[r].st = "exited"
            /\ cmd' = [cmd EXCEPT ![r].drain = "ended", ![r].scanBuf = <<>>]
            /\ hist' = [hist EXCEPT ![r].drainEnd = "eof"]
    /\ UNCHANGED <<windowName, serverUp, req, resp>>

\* ----------------------------------------------------- environment actions
\* the peer closes the connection
Disconnect(r) ==
    /\ req[r].pc \notin {"idle", "done"}
    /\ resp[r].client = "open"
    /\ resp' = [resp EXCEPT ![r].client = "gone"]
    /\ UNCHANGED <<windowName, serverUp, req, cmd, hist>>

\* ffmpeg writes the next byte of the stream to standard output
FfWriteOut(r) ==
    /\ cmd[r].st = "running"
    /\ ~cmd[r].blocked
    /\ cmd[r].produced < MaxBytes
    /\ Len(cmd[r].outPipe) < OutPipeCap
    /\ cmd' = [cmd EXCEPT ![r].produced = @ + 1,
                          ![r].outPipe = Append(@, cmd[r].produced + 1)]
    /\ UNCHANGED <<windowName, serverUp, req, resp, hist>>

\* ffmpeg writes a character to standard error, and sleeps in the write
\* while the pipe is full
FfWriteErr(r) ==
    /\ cmd[r].st = "running"
    /\ \/ /\ Len(cmd[r].errPipe) < ErrPipeCap
          /\ \E ch \in {"a", NL} :
                cmd' = [cmd EXCEPT ![r].errPipe = Append(@, ch),
                                   ![r].blocked = FALSE]
       \/ /\ Len(cmd[r].errPipe) >= ErrPipeCap
          /\ ~cmd[r].blocked
          /\ cmd' = [cmd EXCEPT ![r].blocked = TRUE]
    /\ UNCHANGED <<windowName, serverUp, req, resp, hist>>

\* ffmpeg exits by itself (end of input, display gone)
FfExit(r) ==
    /\ cmd[r].st = "running"
    /\ ~cmd[r].blocked
    /\ cmd' = [cmd EXCEPT ![r].st = "exited"]
    /\ hist' = [hist EXCEPT ![r].selfExit = TRUE]
    /\ UNCHANGED <<windowName, serverUp, req, resp>>

\* main.go:62-64: the signal arrives, main returns, the process exits
Signal ==
    /\ serverUp
    /\ serverUp' = FALSE
    /\ UNCHANGED <<windowName, req, resp, cmd, hist>>

\* --------------------------------------------------------- specifications
\* the steps the handler goroutine takes whenever it can
HandlerStep(r) ==
    \/ Arrive(r)
    \/ SetHeaders(r)
    \/ Locate(r, MatchLists)
    \/ Resolve(r, GeomOutputs)
    \/ Parse(r)
    \/ CheckDims(r)
    \/ StderrPipe(r)
    \/ StdoutPipe(r)
    \/ Start(r)
    \/ Spawn(r)
    \/ Read(r)
    \/ Write(r)
    \/ Flush(r)
    \/ DeferKill(r)
    \/ DeferWait(r)

Handler(r) ==
    \/ HandlerStep(r)
    \/ ReadFail(r)

Environment(r) ==
    \/ Disconnect(r)
    \/ FfWriteOut(r)
    \/ FfWriteErr(r)
    \/ FfExit(r)

\* one request in full detail
Next ==
    \/ Handler(1)
    \/ DrainScan(1)
    \/ Environment(1)

Spec == Init /\ [][Next]_vars

\* several concurrent requests, each with fewer inputs: GET requests for
\* the stream or the viewer page, one filter, one
\* matching window per query, a measurable and an unmeasurable window, and
\* children that write nothing to standard error and at most ConcBytes bytes
\* of output between them, peers that stay until the child runs, and
\* output pipes whose reads end only at end of file
ConcLists == { <<w>> : w \in WindowIds }

ConcOutputs ==
    { o \in GeomOutputs :
        /\ o.given.vx = Num(10) /\ o.given.vy = Num(10)
        /\ o.given.vw = Num(1) /\ o.given.vh \in {Num(0), Num(2)} }

RECURSIVE SumProduced(_)
SumProduced(rs) ==
    IF rs = {} THEN 0
    ELSE LET r == CHOOSE x \in rs : TRUE
         IN  cmd[r].produced + SumProduced(rs \ {r})

ConcInit ==
    /\ Init
    /\ windowName = <<"F", "x">>

ConcPaths == { P_Stream, <<"/">> }

ConcArrive(r) == Dispatch(r, {"GET"}, ConcPaths)

ConcHandler(r) ==
    \/ ConcArrive(r)
    \/ SetHeaders(r)
    \/ Locate(r, ConcLists)
    \/ Resolve(r, ConcOutputs)
    \/ Parse(r)
    \/ CheckDims(r)
    \/ StderrPipe(r)
    \/ StdoutPipe(r)
    \/ Start(r)
    \/ Spawn(r)
    \/ Read(r)
    \/ Write(r)
    \/ Flush(r)
    \/ DeferKill(r)
    \/ DeferWait(r)

ConcEnvironment(r) ==
    \/ cmd[r].st # "none" /\ Disconnect(r)
    \/ SumProduced(Reqs) < ConcBytes /\ FfWriteOut(r)
    \/ FfExit(r)

ConcNext == \E r \in Reqs : ConcHandler(r) \/ ConcEnvironment(r)

ConcSpec == ConcInit /\ [][ConcNext]_vars

\* the specification under the scheduling the Go runtime gives: a goroutine
\* that can run does run; nothing obliges the peer or the child to act
FairSpec ==
    /\ Spec
    /\ WF_vars(HandlerStep(1))
    /\ WF_vars(DrainScan(1))

\* the server with the shutdown signal: the signal may arrive at any time
ShutdownNext ==
    \/ Next
    \/ Signal

ShutdownSpec ==
    /\ Init
    /\ [][ShutdownNext]_vars
    /\ WF_vars(HandlerStep(1))
    /\ WF_vars(DrainScan(1))

\* ------------------------------------------------------------------ claims
Started(r) == \E i \in 1 .. Len(hist[r].stages) : hist[r].stages[i] = "start"

HasStage(r, stage) ==
    \E i \in 1 .. Len(hist[r].stages) : hist[r].stages[i] = stage

IsPrefix(s, t) == Len(s) <= Len(t) /\ SubSeq(t, 1, Len(s)) = s

\* C1: a handler whose capture subprocess was started has returned only
\* after the subprocess was killed and reaped, whatever ended the relay loop.
C1_ReapedBeforeReturn ==
    \A r \in Reqs :
        (req[r].pc = "done" /\ Started(r)) => cmd[r].st = "reaped"

\* a handler returned after a write error, its subprocess reaped
C1_Witness ==
    \E r \in Reqs :
        /\ req[r].pc = "done"
        /\ Started(r)
        /\ hist[r].cause = "write"
        /\ cmd[r].st = "reaped"

\* C2: once the client of an in-flight request is gone, the request's
\* running subprocess is eventually killed and reaped.
C2_DisconnectLeadsToTeardown ==
    \A r \in Reqs :
        (resp[r].client = "gone" /\ cmd[r].st = "running")
            ~> (cmd[r].st = "reaped")

\* C3: when the window query matches nothing, findWindow returns the
\* not-found error, the request ends with the error response, and neither
\* the geometry query nor a capture subprocess is ever launched for it.
C3_ZeroMatchesNotFound ==
    \A r \in Reqs :
        hist[r].matched = "zero" =>
            /\ hist[r].errKind = "NotFound"
            /\ hist[r].logged = S_LogFindFailed \o NotFoundErr(windowName)
            /\ req[r].pc = "done"
            /\ resp[r].status = 500
            /\ ~HasStage(r, "resolve")
            /\ ~Started(r)
            /\ cmd[r].st = "none"

\* a request ended not-found on a query without matches
C3_Witness ==
    \E r \in Reqs :
        /\ hist[r].matched = "zero"
        /\ req[r].pc = "done"
        /\ hist[r].errKind = "NotFound"

StageOrder == <<"stream", "locate", "resolve", "start", "relay", "stop">>

C5_StagesInOrder ==
    \A r \in Reqs :
        /\ \/ hist[r].stages \in {<<"page">>, <<"redirect">>}
           \/ IsPrefix(hist[r].stages, StageOrder)
        /\ hist[r].errKind \in {"NotFound", "Geometry", "Launch"} =>
              /\ req[r].pc = "done"
              /\ ~HasStage(r, "start")
              /\ ~HasStage(r, "relay")
              /\ ~HasStage(r, "stop")
              /\ hist[r].stops = 0
              /\ cmd[r].drain = "none"
              /\ cmd[r].st = "none"
              /\ req[r].buffer = <<>>
              /\ resp[r].sink = <<>>
        /\ cmd[r].drain # "none" => Started(r)
        /\ HasStage(r, "stop") => req[r].deferred

\* a request whose process start failed has ended without relay or stop
C5_Witness ==
    \E r \in Reqs :
        /\ hist[r].logged = S_LogStartFailed
        /\ req[r].pc = "done"
        /\ hist[r].stages = <<"stream", "locate", "resolve">>

ErrorBodies ==
    { S_WindowNotFound \o <<NL>>, S_PosFailed \o <<NL>>,
      S_DimsFailed \o <<NL>>, S_StreamError \o <<NL>> }

\* C6 as claimed: each of the four error kinds, StreamError included, reaches
\* the client as a server-error status with a short body.
C6_AllFourSurfaced ==
    \A r \in Reqs :
        (req[r].pc = "done" /\ hist[r].errKind # "none") =>
            /\ resp[r].status = 500
            /\ resp[r].body \in ErrorBodies

\* C6 as amended: NotFoundError, GeometryError and LaunchError reach the
\* client as status 500 with a short body; a StreamError is only logged and
\* the response ends with status 200 and no error body; the server stays up.
C6_PreStreamErrorsSurfaced ==
    \A r \in Reqs :
        /\ serverUp
        /\ hist[r].errKind \in {"NotFound", "Geometry", "Launch"} =>
              /\ req[r].pc = "done"
              /\ resp[r].status = 500
              /\ resp[r].body \in ErrorBodies
              /\ resp[r].sink = <<>>
        /\ (hist[r].errKind = "Stream" /\ req[r].pc = "done") =>
              /\ resp[r].status = 200
              /\ resp[r].body = <<>>

\* a request ended by a read error before any byte was relayed: status 200
C6_Witness ==
    \E r \in Reqs :
        /\ req[r].pc = "done"
        /\ hist[r].errKind = "Stream"
        /\ hist[r].cause \in {"read", "eof"}
        /\ resp[r].sink = <<>>
        /\ resp[r].status = 200

\* C7 as claimed: the not-found response body mentions the filter string.
C7_BodyMentionsFilter ==
    \A r \in Reqs :
        hist[r].errKind = "NotFound" => Contains(resp[r].body, windowName)

\* C7 as amended: the not-found response is status 500 with the fixed body
\* "Window not found" whatever the filter; the filter string is mentioned in
\* the logged cause only.
C7_FixedBodyFilterLogged ==
    \A r \in Reqs :
        hist[r].errKind = "NotFound" =>
            /\ resp[r].status = 500
            /\ resp[r].body = S_WindowNotFound \o <<NL>>
            /\ Contains(hist[r].logged, <<"'">> \o windowName \o <<"'">>)
            /\ ~Started(r)

\* the filter "Fx" matched no window
C7_Witness ==
    \E r \in Reqs :
        /\ windowName = <<"F", "x">>
        /\ hist[r].matched = "zero"
        /\ hist[r].errKind = "NotFound"
        /\ req[r].pc = "done"

C10_StderrNeverStallsChild ==
    \A r \in Reqs :
        ~(cmd[r].st = "running" /\ cmd[r].blocked /\ cmd[r].drain = "ended")

\* C8: a step that changes anything of one request (a step of its handler,
\* of its subprocess or of its peer; its end of stream, write error,
\* disconnect, kill and wait included) changes nothing of any other request:
\* the other's locals, response, relayed bytes, subprocess and pipes are as
\* before.
C8_RequestsIndependent ==
    [][\A r \in Reqs :
          (req'[r] # req[r] \/ resp'[r] # resp[r] \/ cmd'[r] # cmd[r]) =>
              \A o \in Reqs \ {r} :
                  /\ req'[o] = req[o]
                  /\ resp'[o] = resp[o]
                  /\ cmd'[o] = cmd[o]
                  /\ hist'[o] = hist[o]
      ]_vars

\* one request was torn down while another still streams with a byte relayed
C8_Witness ==
    \E r \in Reqs, o \in Reqs :
        /\ r # o
        /\ req[r].pc = "done"
        /\ hist[r].stops = 1
        /\ cmd[r].st = "reaped"
        /\ cmd[o].st = "running"
        /\ resp[o].sink # <<>>
        /\ req[o].pc = "read"

\* C11: when the first body byte of a stream request is written, the
\* Content-Type (multipart/x-mixed-replace with ffmpeg's boundary token),
\* Cache-Control and Connection headers are already set and the status
\* becomes 200; from then on neither the headers nor the status change.
C11_HeadersFixedBeforeFirstByte ==
    [][\A r \in Reqs :
          /\ (resp[r].sink = <<>> /\ resp'[r].sink # <<>>) =>
                /\ resp[r].header.ct = "multipart/x-mixed-replace; boundary=ffmpeg"
                /\ resp[r].header.cc = "no-cache, no-store, must-revalidate"
                /\ resp[r].header.conn = "close"
                /\ resp[r].status = 0
                /\ resp[r].body = <<>>
                /\ resp'[r].status = 200
                /\ resp'[r].header = resp[r].header
          /\ resp[r].sink # <<>> =>
                /\ resp[r].status = 200
                /\ resp'[r].status = 200
                /\ resp'[r].header = resp[r].header
                /\ resp'[r].body = <<>>
      ]_vars

\* a request that relayed bytes has returned, status 200 and headers as set
C11_Witness ==
    \E r \in Reqs :
        /\ req[r].pc = "done"
        /\ resp[r].sink # <<>>
        /\ resp[r].status = 200
        /\ resp[r].header = StreamHeaders

\* the bytes the subprocess has written to standard output so far, in order
Stream(n) == [i \in 1 .. n |-> i]

\* the chunk read from the pipe and not yet written to the sink: the one a
\* Write is about to send, or the one a failed Write gave up
Pending(r) ==
    IF req[r].pc = "write" \/ hist[r].cause = "write"
    THEN req[r].buffer ELSE <<>>

\* C12: the bytes written to the sink are a prefix of the bytes the
\* subprocess wrote, in order, none altered, duplicated or dropped: sink,
\* pending chunk and pipe content together are the subprocess's output; a
\* chunk holds at most ChunkSize bytes; whenever the loop is at its Read,
\* everything written has been flushed.
C12_VerbatimRelay ==
    \A r \in Reqs :
        /\ IsPrefix(resp[r].sink, Stream(cmd[r].produced))
        /\ IsPrefix(resp[r].sink \o Pending(r), Stream(cmd[r].produced))
        /\ cmd[r].st \in {"running", "exited"} =>
              resp[r].sink \o Pending(r) \o cmd[r].outPipe = Stream(cmd[r].produced)
        /\ Len(req[r].buffer) <= ChunkSize
        /\ req[r].pc = "write" => Len(req[r].buffer) > 0
        /\ resp[r].flushed <= Len(resp[r].sink)
        /\ req[r].pc = "read" => resp[r].flushed = Len(resp[r].sink)

\* more than one chunk has been relayed and flushed, the loop is at its Read
C12_Witness ==
    \E r \in Reqs :
        /\ req[r].pc = "read"
        /\ Len(resp[r].sink) > ChunkSize
        /\ resp[r].flushed = Len(resp[r].sink)

\* C13: the step in which a Read or a Write of the loop fails (end of
\* stream included) leaves the loop for the deferred cleanup; from then on
\* the request reads nothing more from the pipe, writes and flushes nothing
\* more, and its subprocess is not started again.
C13_LoopEndsAtFirstError ==
    [][\A r \in Reqs :
          /\ (hist[r].errKind # "Stream" /\ hist'[r].errKind = "Stream") =>
                /\ req[r].pc \in {"read", "write"}
                /\ req'[r].pc = "kill"
                /\ cmd'[r] = cmd[r]
                /\ resp'[r] = resp[r]
          /\ hist[r].errKind = "Stream" =>
                /\ hist'[r].errKind = "Stream"
                /\ hist'[r].cause = hist[r].cause
                /\ req'[r].pc \in {"kill", "wait", "done"}
                /\ req'[r].buffer = req[r].buffer
                /\ resp'[r].sink = resp[r].sink
                /\ resp'[r].flushed = resp[r].flushed
                /\ \/ IsPrefix(cmd[r].outPipe, cmd'[r].outPipe)
                   \/ cmd'[r].st = "reaped"
                /\ cmd'[r].st = "running" => cmd[r].st = "running"
                /\ cmd'[r].st # "none"
      ]_vars

\* a relay that had passed bytes on met the end of the stream and returned
C13_Witness ==
    \E r \in Reqs :
        /\ req[r].pc = "done"
        /\ hist[r].errKind = "Stream"
        /\ hist[r].cause = "eof"
        /\ resp[r].sink # <<>>
        /\ hist[r].stops = 1

\* the stream requests that arrived and whose handler has not returned
InFlight == { r \in Reqs : req[r].pc \notin {"idle", "done"} }

Running == { r \in Reqs : cmd[r].st = "running" }

\* C14: cmd.Start succeeds at most once for a request and never for one
\* that is not in flight, so a running capture subprocess belongs to a
\* request in flight and there are at most as many of the former as of the
\* latter.
C14_OneSubprocessPerRequest ==
    /\ \A r \in Reqs :
          /\ hist[r].starts <= 1
          /\ cmd[r].st # "none" <=> hist[r].starts = 1
          /\ cmd[r].st = "running" => r \in InFlight
          /\ r \in InFlight => hist[r].stages[1] = "stream"
    /\ Cardinality(Running) <= Cardinality(InFlight)

\* two requests are in flight and each has its own subprocess running
C14_Witness ==
    /\ Cardinality(Running) >= 2
    /\ \A r \in Running : hist[r].starts = 1 /\ req[r].pc = "read"

\* C15: a relay that holds a chunk goes on to write and flush it, and a
\* relay that left its loop goes on through Kill and Wait to its return,
\* whether or not the shutdown signal has arrived: a request at its Write,
\* at its Flush or in its cleanup always reaches the next Read or the return.
C15_SignalLeavesRelaysAlone ==
    \A r \in Reqs :
        (req[r].pc \in {"write", "flush", "kill", "wait"})
            ~> (req[r].pc \in {"read", "done"})

\* C16: the release (Kill, then Wait) runs once and only once for a request
\* whose cmd.Start succeeded, whichever way its loop ended, before the
\* handler returns, and never for a request whose start failed or was never
\* attempted.
C16_ReleasedExactlyOnce ==
    \A r \in Reqs :
        /\ hist[r].stops <= 1
        /\ hist[r].waits <= hist[r].stops
        /\ hist[r].starts = 0 => hist[r].stops = 0
        /\ req[r].pc = "wait" => (hist[r].stops = 1 /\ hist[r].waits = 0)
        /\ (req[r].pc = "done" /\ hist[r].starts = 1) =>
              /\ hist[r].stops = 1
              /\ hist[r].waits = 1
              /\ hist[r].cause \in {"eof", "read", "write"}
        /\ hist[r].logged = S_LogStartFailed =>
              (hist[r].starts = 0 /\ hist[r].stops = 0 /\ hist[r].waits = 0)

\* a relay ended by a failing Read was released once
C16_Witness ==
    \E r \in Reqs :
        /\ req[r].pc = "done"
        /\ hist[r].cause = "read"
        /\ hist[r].starts = 1
        /\ hist[r].stops = 1
        /\ hist[r].waits = 1

\* C17: a drain task ends only for a cause of its own session (the pipe
\* closed by cmd.Wait, end of input after the subprocess exited, a line too
\* long), the handler returns without waiting for it, and a drain task whose
\* subprocess has exited or has been killed and waited for eventually ends.
C17_DrainTerminates ==
    /\ [](\A r \in Reqs :
             /\ cmd[r].drain = "ended" <=> hist[r].drainEnd # "none"
             /\ hist[r].drainEnd = "closed" => cmd[r].st = "reaped"
             /\ hist[r].drainEnd = "eof" => cmd[r].st \in {"exited", "reaped"}
             /\ cmd[r].drain # "none" => hist[r].starts = 1)
    /\ \A r \in Reqs :
          (cmd[r].drain = "scanning" /\ cmd[r].st \in {"exited", "reaped"})
              ~> (cmd[r].drain = "ended")

\* the handler returned before the drain task ended, and the drain task
\* ended afterwards on the pipe that cmd.Wait had closed
C17_Witness ==
    \E r \in Reqs :
        /\ req[r].pc = "done"
        /\ cmd[r].st = "reaped"
        /\ cmd[r].drain = "ended"
        /\ hist[r].drainEnd = "closed"

Arrived(r) == hist[r].stages # <<>>

Expected(v) == IF v.present /\ v.scans THEN v.n ELSE 0

ExpectedGeom(c) ==
    [x |-> Expected(c.vx), y |-> Expected(c.vy),
     width |-> Expected(c.vw), height |-> Expected(c.vh)]

\* C19: whichever of the four labelled lines the geometry query printed,
\* the parse gives each field the number on its line, and 0 when the line is
\* missing or carries no number; the request then fails with the dimension
\* error when the width or the height so obtained is 0, and otherwise goes
\* on to capture with exactly these values, offset 0 for a missing X or Y.
C19_FieldsByLabel ==
    \A r \in Reqs :
        LET c == hist[r].given
            e == ExpectedGeom(c)
        IN  /\ req[r].pc = "check" => req[r].geom = e
            /\ (c # NoCase /\ req[r].pc \notin {"parse", "check"}) =>
                  IF e.width = 0 \/ e.height = 0
                  THEN /\ req[r].pc = "done"
                       /\ req[r].geom = e
                       /\ hist[r].errKind = "Geometry"
                       /\ hist[r].logged = S_LogDimsFailed
                       /\ resp[r].status = 500
                       /\ cmd[r].st = "none"
                  ELSE /\ cmd[r].args = e
                       /\ hist[r].errKind # "Geometry"
                       /\ req[r].pc = "spawn" => cmd[r].st # "none"

\* a subprocess was started at horizontal offset 0 for a window whose X
\* line was missing, the other three fields as printed
C19_Witness ==
    \E r \in Reqs :
        /\ req[r].pc = "spawn"
        /\ cmd[r].st = "running"
        /\ ~hist[r].given.vx.present
        /\ hist[r].given.vy = Num(10)
        /\ cmd[r].args = [x |-> 0, y |-> 10, width |-> 2, height |-> 1]

\* C20: when the query matches windows the handler goes on with the first
\* identifier of the result; a query that matches nothing and a query
\* command that fails give the same error value, the same log line and the
\* same response, and a query with matches never gives that error.
C20_FirstIdOrNotFound ==
    /\ findWindow(windowName, ShellSearchOutput(<<>>), FALSE)
          = findWindow(windowName, <<>>, TRUE)
    /\ \A r \in Reqs :
          /\ req[r].pc = "posCmd" =>
                /\ hist[r].matched = "some"
                /\ hist[r].found # <<>>
                /\ req[r].windowID = hist[r].found[1]
          /\ hist[r].matched \in {"zero", "failed"} =>
                /\ req[r].pc = "done"
                /\ hist[r].errKind = "NotFound"
                /\ hist[r].logged = S_LogFindFailed \o NotFoundErr(windowName)
                /\ resp[r].status = 500
                /\ resp[r].body = S_WindowNotFound \o <<NL>>
          /\ hist[r].matched = "some" => hist[r].errKind # "NotFound"

\* the query matched two different windows and the handler holds the first
C20_Witness ==
    \E r \in Reqs :
        /\ req[r].pc = "posCmd"
        /\ Len(hist[r].found) >= 2
        /\ hist[r].found[1] # hist[r].found[2]
        /\ req[r].windowID = hist[r].found[1]

====
